---- MODULE Spec2Model ----
(***************************************************************************)
(* Arraylet layout, leaf linking and the double-map registry.              *)
(*                                                                         *)
(* Two state machines share this module:                                   *)
(*   SpecLayout   - one allocating thread running                          *)
(*                  MM_IndexableObjectAllocationModel:                     *)
(*                  initializeAllocateDescription, initializeIndexableObject*)
(*                  layoutDiscontiguousArraylet and doubleMapArraylets.    *)
(*   SpecRegistry - several threads running                                *)
(*                  MM_GCExtensions::doubleMapArraylets and the release    *)
(*                  path that ends in MM_GCExtensions::freeDoubleMap.      *)
(***************************************************************************)
EXTENDS Integers, Sequences, FiniteSets, TLC

(***************************************************************************)
(* Bounds of the model.                                                    *)
(***************************************************************************)
\* arraylet leaf size in bytes (env->getOmrVM()->_arrayletLeafSize)
LeafSize == 2
\* largest number of elements of a requested array (one byte per element)
MaxElements == 5
\* number of heap addresses the spine can occupy
NumSpineAddrs == 3

\* number of threads calling into the double-map registry
NumThreads == 2
\* number of array objects (heap addresses) that can be double mapped
NumObjects == 2
\* number of alias regions the operating system can hand out
NumAliases == 2
\* number of registry operations (mappings and releases) started in a run
MaxCalls == 3
MaxTaskRuns == 3
MaxAddr == 5
MaxRangeCalls == 4

NULL == 0

SpineAddrs == 1..NumSpineAddrs

Layouts == {"InlineContiguous", "Discontiguous", "Hybrid"}

Threads == 1..NumThreads

Objects == 1..NumObjects

Aliases == 1..NumAliases

VARIABLES
    \* ---- MM_IndexableObjectAllocationModel (one allocating thread) ----
    lpc,                    \* position of the allocating thread
    layout,                 \* _layout
    numberOfIndexedFields,  \* _numberOfIndexedFields
    dataSize,               \* _dataSize
    numberOfArraylets,      \* _numberOfArraylets
    allocatable,            \* isAllocatable()
    wasAllocatable,         \* isAllocatable() on entry to initializeAllocateDescription
    gcAllowed,              \* isGCAllowed()
    doubleMappingEnabled,   \* indexableObjectModel.isDoubleMappingEnabled()
    desc,                   \* _allocateDescription
    spine,                  \* local variable spine
    arrayoidPtr,            \* local variable arrayoidPtr (spine address it was read from)
    arrayoidIndex,          \* local variable arrayoidIndex
    bytesRemaining,         \* local variable bytesRemaining
    heapSpine,              \* address at which the collector currently keeps the spine
    mem,                    \* arrayoid slots stored at each spine address
    writes,                 \* every arrayoid slot write, in order
    leafAllocs,             \* number of calls of allocateArrayletLeaf
    failedAt,               \* index of the leaf allocation that returned NULL, or NotYet
    arrayletDataDiscontiguous, \* isArrayletDataDiscontiguous(spine): "yes", "no", or "notAsked"
    dmCalls,                \* leaf lists handed to heap->doubleMapArraylet
    dmResult,               \* what doubleMapArraylets returned, or NotYet
    hashInit,               \* initializeHashSlot was called
    returned,               \* value returned by initializeIndexableObject, or NotYet
    \* ---- MM_GCExtensions: the double-map registry (several threads) ----
    pc,                     \* position of each thread
    objectPtr,              \* argument objectPtr of each thread's call
    result,                 \* local variable result of doubleMapArraylets
    addrEntry,              \* local variable addrEntry of doubleMapArraylets
    arrayletLeaveAddrs,     \* local variable arrayletLeaveAddrs, its first count elements
    arrayletLock,           \* _arrayletLock: NULL when free, else the holder
    arrayletHashTable,      \* arrayletHashTable: the set of entries
    liveMaps,               \* alias regions currently mapped by the operating system
    callInfo,               \* per call: what was true when it started and ran
    released,               \* release path: entry removed, arguments of the unmap
    mapState,               \* per object: the last registry operation completed on it
    calls,                  \* number of registry operations started so far
    leafBuffers,            \* number of leaf-address buffers obtained from malloc
                            \* and not freed
    example,                \* the leaf loop of one array with full-size numbers
    extensions,             \* MM_GCExtensions::newInstance and initialize in progress
    task,                   \* one MM_ConcurrentCopyForwardSchemeTask and the phases it ran
    hashData                \* J9IdentityHashData: hashData1, hashData2 and the calls made

layoutVars == <<lpc, layout, numberOfIndexedFields, dataSize, numberOfArraylets,
                allocatable, wasAllocatable, gcAllowed, doubleMappingEnabled, desc, spine,
                arrayoidPtr, arrayoidIndex, bytesRemaining, heapSpine, mem, writes,
                leafAllocs, failedAt, arrayletDataDiscontiguous, dmCalls, dmResult, hashInit,
                returned>>

registryVars == <<pc, objectPtr, result, addrEntry, arrayletLeaveAddrs, arrayletLock, arrayletHashTable,
                  liveMaps, callInfo, released, mapState, calls, leafBuffers>>

auxVars == <<example, extensions, task, hashData>>

vars == <<layoutVars, registryVars, auxVars>>

(***************************************************************************)
(* Values                                                                  *)
(***************************************************************************)
\* marks a result that has not been produced yet
NotYet == -1

\* content of an arrayoid slot
RawRef == [kind |-> "raw", base |-> 0, off |-> 0]
NullRef == [kind |-> "null", base |-> 0, off |-> 0]
LeafRef(k) == [kind |-> "leaf", base |-> 0, off |-> k]
SpineRef(addr, offset) == [kind |-> "spine", base |-> addr, off |-> offset]

Min(a, b) == IF a < b THEN a ELSE b

\* MM_Math::roundToCeiling(granularity, number)
RoundToCeiling(granularity, number) ==
    ((number + granularity - 1) \div granularity) * granularity

(***************************************************************************)
(* Layout plan of a request: what the constructor hands to                 *)
(* initializeAllocateDescription.                                          *)
(***************************************************************************)
\* _numberOfArraylets of an array of the given data size: the post-loop
\* assertions of layoutDiscontiguousArraylet fix it to one more than the number
\* of full leaves (the last arraylet is partial, or empty and NULL).
NumArraylets(lay, size) ==
    IF lay = "InlineContiguous" THEN 1 ELSE (size \div LeafSize) + 1

MaxArraylets == (MaxElements \div LeafSize) + 2

\* values of _numberOfArraylets the constructor (not part of this file) can hand
\* over for a layout and data size: none, the number of leaves that hold data,
\* and that number with an arraylet for the byte after the last element
NumArrayletsInputs(lay, size) ==
    IF lay = "InlineContiguous" THEN {0, 1, 2}
    ELSE {0, RoundToCeiling(LeafSize, size) \div LeafSize, NumArraylets(lay, size)}

Slots == 0..(MaxArraylets - 1)

\* sizeof(uintptr_t)
WordSize == 8
\* object alignment in bytes, objectModel.adjustSizeInBytes
ObjectAlignment == 8
\* size of the spine header
HeaderSize == 16

\* indexableObjectModel.getSpineSize: header, arrayoid and the data kept inline
GetSpineSize(lay, n, size) ==
    CASE lay = "InlineContiguous" -> HeaderSize + size
      [] lay = "Discontiguous" -> HeaderSize + (n * WordSize)
      [] lay = "Hybrid" -> HeaderSize + (n * WordSize) + (size % LeafSize)

\* indexableObjectModel.getHashcodeOffset
GetHashcodeOffset(lay, n, size) == RoundToCeiling(4, GetSpineSize(lay, n, size))

NoAdjust(bytes) == bytes

\* objectModel.adjustSizeInBytes
AdjustSizeInBytes(bytes) == RoundToCeiling(ObjectAlignment, bytes)

\* MM_AllocateDescription::getContiguousBytes
GetContiguousBytes(d) == IF d.spineBytes # 0 THEN d.spineBytes ELSE d.bytesRequested

\* spineBytes as computed at the head of initializeAllocateDescription
SpineBytesOf(lay, n, size, preHash) ==
    LET raw == GetSpineSize(lay, n, size)
        withHash == IF preHash /\ raw = GetHashcodeOffset(lay, n, size)
                    THEN raw + WordSize ELSE raw
    IN AdjustSizeInBytes(withHash)

LayoutSizeAllLeaves(lay, n, size) ==
    CASE lay = "InlineContiguous" -> 0
      [] lay = "Discontiguous" -> size
      [] lay = "Hybrid" -> LeafSize * n

\* layoutSizeInBytes of the switch in initializeAllocateDescription
LayoutSizeInBytes(lay, n, size) ==
    CASE lay = "InlineContiguous" -> 0
      [] lay = "Discontiguous" -> size
      [] lay = "Hybrid" -> LeafSize * (n - 1)

LayoutAlwaysAccepted(lay, gc, elements) == TRUE

\* whether the switch in initializeAllocateDescription sets allocatable
LayoutAccepted(lay, gc, elements) ==
    CASE lay = "InlineContiguous" -> TRUE
      [] lay = "Discontiguous" -> gc \/ (elements = 0)
      [] lay = "Hybrid" -> gc

(***************************************************************************)
(* Init of the allocating thread                                           *)
(***************************************************************************)
InitLayout ==
    /\ lpc = "start"
    /\ layout \in Layouts
    /\ numberOfIndexedFields \in 0..MaxElements
    /\ dataSize = numberOfIndexedFields
    /\ (layout = "InlineContiguous") => (dataSize < LeafSize)
    /\ numberOfArraylets \in NumArrayletsInputs(layout, dataSize)
    /\ allocatable \in BOOLEAN
    /\ wasAllocatable = allocatable
    /\ gcAllowed \in BOOLEAN
    /\ doubleMappingEnabled \in BOOLEAN
    /\ \E preHash \in BOOLEAN :
          desc = [bytesRequested |-> 0, numArraylets |-> 0, spineBytes |-> 0,
                  chunkedArray |-> FALSE, spine |-> NULL, preHashFlag |-> preHash]
    /\ spine = NULL
    /\ arrayoidPtr = NULL
    /\ arrayoidIndex = 0
    /\ bytesRemaining = 0
    /\ heapSpine = NULL
    /\ mem = [a \in SpineAddrs |-> [i \in Slots |-> RawRef]]
    /\ writes = <<>>
    /\ leafAllocs = 0
    /\ failedAt = NotYet
    /\ arrayletDataDiscontiguous = "notAsked"
    /\ dmCalls = <<>>
    /\ dmResult = NotYet
    /\ hashInit = FALSE
    /\ returned = NotYet

(***************************************************************************)
(* initializeAllocateDescription                                           *)
(***************************************************************************)
KeepAllocatable(a) == a

\* "continue, with reservations": setAllocatable(false)
SetAllocatableFalse(a) == FALSE

InitializeAllocateDescription ==
    /\ lpc \in {"start", "rejected"}
    /\ wasAllocatable' = allocatable
    /\ IF ~allocatable
       THEN /\ lpc' = "rejected"
            /\ UNCHANGED <<allocatable, desc>>
       ELSE LET spineBytes == SpineBytesOf(layout, numberOfArraylets, dataSize,
                                           desc.preHashFlag)
                layoutSizeInBytes ==
                    LayoutSizeInBytes(layout, numberOfArraylets, dataSize)
                accepted == LayoutAccepted(layout, gcAllowed, numberOfIndexedFields)
            IN IF (layout # "InlineContiguous") /\ ~(0 < numberOfArraylets)
               THEN /\ lpc' = "assertFailed"
                    /\ allocatable' = SetAllocatableFalse(allocatable)
                    /\ UNCHANGED desc
               ELSE IF accepted
               THEN /\ lpc' = "described"
                    /\ allocatable' = TRUE
                    /\ desc' = [desc EXCEPT
                                  !.bytesRequested = spineBytes + layoutSizeInBytes,
                                  !.numArraylets = numberOfArraylets,
                                  !.spineBytes = spineBytes,
                                  !.chunkedArray = (layout # "InlineContiguous")]
               ELSE /\ lpc' = "rejected"
                    /\ allocatable' = SetAllocatableFalse(allocatable)
                    /\ UNCHANGED desc
    /\ UNCHANGED arrayletDataDiscontiguous
    /\ UNCHANGED registryVars
    /\ UNCHANGED auxVars
    /\ UNCHANGED <<layout, numberOfIndexedFields, dataSize, numberOfArraylets,
                   gcAllowed, doubleMappingEnabled, spine, arrayoidPtr,
                   arrayoidIndex, bytesRemaining, heapSpine, mem, writes,
                   leafAllocs, failedAt, dmCalls, dmResult, hashInit, returned>>

(***************************************************************************)
(* initializeIndexableObject, up to the leaf loop                          *)
(***************************************************************************)
\* indexableObjectModel.getArrayoidPointer: the arrayoid lives inside the spine,
\* so the pointer is identified with the spine address it was computed from
GetArrayoidPointer(spineAddr) == spineAddr

\* entry checks of layoutDiscontiguousArraylet
LayoutEntryAssertions ==
    /\ numberOfArraylets = desc.numArraylets
    /\ desc.bytesRequested >= GetContiguousBytes(desc)
    /\ \/ ((desc.bytesRequested - GetContiguousBytes(desc)) % LeafSize) = 0
       \/ layout # "Hybrid"

SkipSetSpine(d, s) == d

\* _allocateDescription.setSpine(spine)
SetSpine(d, s) == [d EXCEPT !.spine = s]

NoInlineAssertion(n) == TRUE

\* Assert_MM_true(1 == _numberOfArraylets) of the InlineContiguous case
InlineAssertion(n) == 1 = n

NeverEmpty(n) == FALSE

\* if (0 == _numberOfIndexedFields): "Don't try to initialize the arrayoid for
\* an empty NUA"
EmptyArray(n) == 0 = n

InitializeIndexableObject ==
    /\ lpc = "described"
    /\ \E allocatedBytes \in SpineAddrs \cup {NULL} :
          /\ spine' = allocatedBytes
          /\ heapSpine' = allocatedBytes
          /\ desc' = SetSpine(desc, allocatedBytes)
          /\ IF layout = "InlineContiguous"
             THEN /\ lpc' = IF InlineAssertion(numberOfArraylets)
                            THEN "hashSlot" ELSE "assertFailed"
                  /\ UNCHANGED <<arrayoidPtr, arrayoidIndex, bytesRemaining>>
             ELSE IF (allocatedBytes = NULL) \/ EmptyArray(numberOfIndexedFields)
             THEN /\ lpc' = "hashSlot"
                  /\ UNCHANGED <<arrayoidPtr, arrayoidIndex, bytesRemaining>>
             ELSE IF ~LayoutEntryAssertions
             THEN /\ lpc' = "assertFailed"
                  /\ UNCHANGED <<arrayoidPtr, arrayoidIndex, bytesRemaining>>
             ELSE /\ lpc' = "leafLoop"
                  /\ bytesRemaining' = desc.bytesRequested - GetContiguousBytes(desc)
                  /\ arrayoidIndex' = 0
                  /\ arrayoidPtr' = GetArrayoidPointer(allocatedBytes)
    /\ UNCHANGED wasAllocatable
    /\ UNCHANGED arrayletDataDiscontiguous
    /\ UNCHANGED registryVars
    /\ UNCHANGED auxVars
    /\ UNCHANGED <<layout, numberOfIndexedFields, dataSize, numberOfArraylets,
                   allocatable, gcAllowed, doubleMappingEnabled, mem, writes,
                   leafAllocs, failedAt, dmCalls, dmResult, hashInit, returned>>

(***************************************************************************)
(* layoutDiscontiguousArraylet: one iteration of the leaf loop             *)
(***************************************************************************)
\* a write through pointer ptr to arrayoid slot idx; live is the address at
\* which the collector keeps the spine when the write happens
SlotWrite(ptr, idx, val, live, allocs) ==
    [addr |-> ptr, idx |-> idx, val |-> val, live |-> live, allocs |-> allocs]

WriteToFirstSlot(m, ptr, idx, val) == [m EXCEPT ![ptr][0] = val]

WriteReferenceToSlot(m, ptr, idx, val) == [m EXCEPT ![ptr][idx] = val]

\* the collector moves the spine from address from to address to
Relocate(m, from, to) == IF to = from THEN m ELSE [m EXCEPT ![to] = m[from]]

KeepDescSpine(descSpine) == descSpine

\* on a failed leaf allocation: _allocateDescription.setSpine(NULL)
DescSpineAfterLeafFailure(descSpine) == NULL

StaleSpine(localSpine, descSpine) == localSpine

\* "refresh the spine -- it might move if we GC while allocating the leaf"
RefreshSpine(localSpine, descSpine) == descSpine

LeafBytesOne(bytes, arrayletLeafSize) == 1

LeafBytesMax(bytes, arrayletLeafSize) ==
    IF bytes < arrayletLeafSize THEN arrayletLeafSize ELSE bytes

\* OMR_MIN(bytesRemaining, arrayletLeafSize): the bytes the new leaf accounts for
LeafBytes(bytes, arrayletLeafSize) == Min(bytes, arrayletLeafSize)

AllocateLeafAndLink ==
    /\ lpc = "leafLoop"
    /\ 0 < bytesRemaining
    /\ \E leafOk \in BOOLEAN, movedTo \in SpineAddrs :
          LET memAfterGC == Relocate(mem, heapSpine, movedTo)
              descSpine == movedTo
              newSpine == RefreshSpine(spine, descSpine)
              newPtr == GetArrayoidPointer(newSpine)
              leaf == LeafRef(leafAllocs + 1)
          IN /\ leafAllocs' = leafAllocs + 1
             /\ heapSpine' = movedTo
             /\ IF ~leafOk
                THEN /\ desc' = [desc EXCEPT
                                   !.spine = DescSpineAfterLeafFailure(descSpine)]
                     /\ spine' = NULL
                     /\ failedAt' = arrayoidIndex
                     /\ mem' = memAfterGC
                     /\ lpc' = "hashSlot"
                     /\ UNCHANGED <<arrayoidPtr, arrayoidIndex, bytesRemaining, writes>>
                ELSE /\ desc' = [desc EXCEPT !.spine = descSpine]
                     /\ spine' = newSpine
                     /\ arrayoidPtr' = newPtr
                     /\ mem' = WriteReferenceToSlot(memAfterGC, newPtr, arrayoidIndex, leaf)
                     /\ writes' = Append(writes,
                                         SlotWrite(newPtr, arrayoidIndex, leaf, movedTo,
                                                   leafAllocs + 1))
                     /\ bytesRemaining' = bytesRemaining - LeafBytes(bytesRemaining, LeafSize)
                     /\ arrayoidIndex' = arrayoidIndex + 1
                     /\ UNCHANGED <<failedAt, lpc>>
    /\ UNCHANGED wasAllocatable
    /\ UNCHANGED arrayletDataDiscontiguous
    /\ UNCHANGED registryVars
    /\ UNCHANGED auxVars
    /\ UNCHANGED <<layout, numberOfIndexedFields, dataSize, numberOfArraylets,
                   allocatable, gcAllowed, doubleMappingEnabled, dmCalls, dmResult,
                   hashInit, returned>>

(***************************************************************************)
(* MM_IndexableObjectAllocationModel::doubleMapArraylets                   *)
(***************************************************************************)
RECURSIVE CollectLeavesReversed(_, _, _)
CollectLeavesReversed(arrayoid, from, n) ==
    IF from >= n THEN <<>>
    ELSE IF arrayoid[from] = NullRef THEN <<>>
    ELSE CollectLeavesReversed(arrayoid, from + 1, n) \o <<arrayoid[from]>>

RECURSIVE CollectAllSlots(_, _, _)
CollectAllSlots(arrayoid, from, n) ==
    IF from >= n THEN <<>>
    ELSE <<arrayoid[from]>> \o CollectAllSlots(arrayoid, from + 1, n)

\* the leaf references read by the GC_ArrayletLeafIterator loop from slot
\* from on: it stops at the end of the arrayoid or at the first NULL slot
RECURSIVE CollectLeaves(_, _, _)
CollectLeaves(arrayoid, from, n) ==
    IF from >= n THEN <<>>
    ELSE IF arrayoid[from] = NullRef THEN <<>>
    ELSE <<arrayoid[from]>> \o CollectLeaves(arrayoid, from + 1, n)

\* arrayletLeafCount of doubleMapArraylets
ArrayletLeafCount(size) == RoundToCeiling(LeafSize, size) \div LeafSize

\* alias address returned by a successful heap->doubleMapArraylet
AliasAddr == 1

(***************************************************************************)
(* layoutDiscontiguousArraylet: after the leaf loop                        *)
(***************************************************************************)
NoPostLoopAssertions(lastLeafEmpty, index, n, size) == TRUE

\* the assertions of the Discontiguous case after the loop
PostLoopAssertionsFor(arrayletLeafSize, lastLeafEmpty, index, n, size) ==
    IF lastLeafEmpty
    THEN 0 = (size % arrayletLeafSize)
    ELSE /\ 0 # (size % arrayletLeafSize)
         /\ index = n

PostLoopAssertions(lastLeafEmpty, index, n, size) ==
    PostLoopAssertionsFor(LeafSize, lastLeafEmpty, index, n, size)

LeaveTrailingSlot(m, ptr, idx) == m

\* "if last arraylet leaf is empty (contains 0 bytes) arrayoid pointer is set to
\* NULL"
WriteTrailingNull(m, ptr, idx) == WriteReferenceToSlot(m, ptr, idx, NullRef)

DoubleMapWheneverEnabled(enabled, discontiguous) == enabled

\* isDoubleMappingEnabled() and then isArrayletDataDiscontiguous(spine) guard
\* the call of doubleMapArraylets
ShouldDoubleMap(enabled, discontiguous) == enabled /\ discontiguous

\* doubleMapArraylets returns NULL when the first leaf region's
\* _arrayletDoublemapID.address is NULL, else what heap->doubleMapArraylet returned
DoubleMapResult(res, idAddress) == IF idAddress = NULL THEN NULL ELSE res

SpineNullWhenMapFails(localSpine, mapResult) ==
    IF mapResult = NULL THEN NULL ELSE localSpine

\* doubleMapArraylets(env, (J9Object *)spine): the return value is discarded
SpineAfterDoubleMap(localSpine, mapResult) == localSpine

PostLoopDiscontiguous ==
    /\ lpc = "leafLoop"
    /\ bytesRemaining = 0
    /\ layout = "Discontiguous"
    /\ \E discontiguous \in BOOLEAN, res \in {NULL, AliasAddr},
          idAddress \in {NULL, AliasAddr} :
          LET lastLeafEmpty == arrayoidIndex = (numberOfArraylets - 1)
              assertionsHold ==
                  PostLoopAssertions(lastLeafEmpty, arrayoidIndex, numberOfArraylets,
                                     dataSize)
              memAfter ==
                  IF lastLeafEmpty
                  THEN WriteTrailingNull(mem, arrayoidPtr, arrayoidIndex)
                  ELSE mem
              leaves == CollectLeaves(memAfter[spine], 0, numberOfArraylets)
              attempt == ShouldDoubleMap(doubleMappingEnabled, discontiguous)
              mapResult == DoubleMapResult(res, idAddress)
          IN IF ~assertionsHold
             THEN /\ lpc' = "assertFailed"
                  /\ UNCHANGED <<mem, writes, arrayletDataDiscontiguous, dmCalls,
                                 dmResult, spine>>
             ELSE /\ mem' = memAfter
                  /\ arrayletDataDiscontiguous' = IF discontiguous THEN "yes" ELSE "no"
                  /\ writes' = IF lastLeafEmpty
                               THEN Append(writes,
                                           SlotWrite(arrayoidPtr, arrayoidIndex, NullRef,
                                                     heapSpine, leafAllocs))
                               ELSE writes
                  /\ IF ~attempt
                     THEN /\ lpc' = "hashSlot"
                          /\ UNCHANGED <<dmCalls, dmResult, spine>>
                     ELSE IF ArrayletLeafCount(dataSize) # Len(leaves)
                     THEN /\ lpc' = "leafCountAssertFailed"
                          /\ UNCHANGED <<dmCalls, dmResult, spine>>
                     ELSE /\ lpc' = "hashSlot"
                          /\ dmCalls' = Append(dmCalls, leaves)
                          /\ dmResult' = mapResult
                          /\ spine' = SpineAfterDoubleMap(spine, mapResult)
    /\ UNCHANGED wasAllocatable
    /\ UNCHANGED registryVars
    /\ UNCHANGED auxVars
    /\ UNCHANGED <<layout, numberOfIndexedFields, dataSize, numberOfArraylets,
                   allocatable, gcAllowed, doubleMappingEnabled, desc,
                   arrayoidPtr, arrayoidIndex, bytesRemaining, heapSpine,
                   leafAllocs, failedAt, hashInit, returned>>

DoubleMapAssertionCompiledOut(enabled) == TRUE

\* Assert_MM_double_map_unreachable() is reached only "if double map is enabled":
\* the assertion holds exactly when double mapping is off
AssertDoubleMapUnreachable(enabled) == ~enabled

PostLoopHybrid ==
    /\ lpc = "leafLoop"
    /\ bytesRemaining = 0
    /\ layout = "Hybrid"
    /\ IF ~AssertDoubleMapUnreachable(doubleMappingEnabled)
          \/ (arrayoidIndex # (numberOfArraylets - 1))
       THEN /\ lpc' = "assertFailed"
            /\ UNCHANGED <<mem, writes>>
       ELSE LET leafOffset == SpineRef(arrayoidPtr, numberOfArraylets)
            IN /\ mem' = WriteReferenceToSlot(mem, arrayoidPtr, arrayoidIndex, leafOffset)
               /\ writes' = Append(writes,
                                   SlotWrite(arrayoidPtr, arrayoidIndex, leafOffset,
                                             heapSpine, leafAllocs))
               /\ lpc' = "hashSlot"
    /\ UNCHANGED wasAllocatable
    /\ UNCHANGED arrayletDataDiscontiguous
    /\ UNCHANGED registryVars
    /\ UNCHANGED auxVars
    /\ UNCHANGED <<layout, numberOfIndexedFields, dataSize, numberOfArraylets,
                   allocatable, gcAllowed, doubleMappingEnabled, desc, spine,
                   arrayoidPtr, arrayoidIndex, bytesRemaining, heapSpine,
                   leafAllocs, failedAt, dmCalls, dmResult, hashInit, returned>>

(***************************************************************************)
(* initializeIndexableObject: hash slot and return                         *)
(***************************************************************************)
FinishInitialize ==
    /\ lpc = "hashSlot"
    /\ hashInit' = ((spine # NULL) /\ desc.preHashFlag)
    /\ IF spine = desc.spine
       THEN /\ lpc' = "done"
            /\ returned' = spine
       ELSE /\ lpc' = "assertFailed"
            /\ UNCHANGED returned
    /\ UNCHANGED wasAllocatable
    /\ UNCHANGED arrayletDataDiscontiguous
    /\ UNCHANGED registryVars
    /\ UNCHANGED auxVars
    /\ UNCHANGED <<layout, numberOfIndexedFields, dataSize, numberOfArraylets,
                   allocatable, gcAllowed, doubleMappingEnabled, desc, spine,
                   arrayoidPtr, arrayoidIndex, bytesRemaining, heapSpine, mem,
                   writes, leafAllocs, failedAt, dmCalls, dmResult>>

(***************************************************************************)
(* The double-map registry: MM_GCExtensions                                *)
(***************************************************************************)
\* region granularity used by the double-map primitive to size the alias
PageSize == 2

\* indexableObjectModel.getDataSizeInBytes of the array at a heap address
GetDataSizeInBytes(o) == o + 1

\* number of arraylets of the array at a heap address: the arrays handed to the
\* registry are the Discontiguous arrays layoutDiscontiguousArraylet builds
NumLeafsOf(o) == NumArraylets("Discontiguous", GetDataSizeInBytes(o))

\* arrayoid of the array at a heap address as layoutDiscontiguousArraylet leaves
\* it: a leaf per slot that holds data, NULL in a last slot that holds none
ArrayoidOf(o) ==
    [i \in 0..(NumLeafsOf(o) - 1) |->
        IF i * LeafSize < GetDataSizeInBytes(o) THEN LeafRef(i + 1) ELSE NullRef]

\* the loop over the GC_ArrayletLeafIterator in MM_GCExtensions::doubleMapArraylets:
\* every slot's reference is stored, in slot order
RECURSIVE ReadAllLeafPointers(_, _, _)
ReadAllLeafPointers(arrayoid, from, n) ==
    IF from >= n THEN <<>>
    ELSE <<arrayoid[from]>> \o ReadAllLeafPointers(arrayoid, from + 1, n)

LeavesOfIterator(o) == ReadAllLeafPointers(ArrayoidOf(o), 0, NumLeafsOf(o))

\* a J9PortVmemIdentifier
NoIdentifier == [address |-> NULL, size |-> 0]

\* an ArrayletTableEntry; NoEntry stands for a NULL entry pointer
NoEntry == [heapAddr |-> NULL, contiguousAddr |-> NULL, identifier |-> NoIdentifier,
            dataSize |-> 0, actualSize |-> 0]

\* the identifier filled in by a successful heap->doubleMapArraylet: the alias
\* region and the size reserved for it, a whole number of pages
MappedIdentifier(alias, elementsSize) ==
    [address |-> alias, size |-> RoundToCeiling(PageSize, elementsSize)]

WrongKeyEntry(o, res, identifier, elementsSize) ==
    [heapAddr |-> 1, contiguousAddr |-> res, identifier |-> identifier,
     dataSize |-> identifier.size, actualSize |-> elementsSize]

\* the alias region a successful heap->doubleMapArraylet returns: one that
\* overlaps no live mapping (none when the address space is used up)
FreshAlias(live) ==
    IF Aliases \ live = {} THEN {}
    ELSE {CHOOSE a \in Aliases \ live : \A b \in Aliases \ live : a <= b}

\* addrEntry as filled in after the primitive succeeded
MakeAddrEntry(o, res, identifier, elementsSize) ==
    [heapAddr |-> o, contiguousAddr |-> res, identifier |-> identifier,
     dataSize |-> identifier.size, actualSize |-> elementsSize]

\* ArrayletTableEntry::equal: entries are equal when their heapAddr is
EntryEqual(left, right) == left.heapAddr = right.heapAddr

\* a lookup that still sees the entry of a released mapping
HashTableFindReleased(table, key) ==
    IF key.heapAddr \in Objects /\ mapState[key.heapAddr] = "released"
    THEN key
    ELSE IF \E e \in table : EntryEqual(e, key)
         THEN CHOOSE e \in table : EntryEqual(e, key)
         ELSE NoEntry

\* hashTableFind: the stored entry equal to the key entry, or NoEntry
HashTableFind(table, key) ==
    IF \E e \in table : EntryEqual(e, key)
    THEN CHOOSE e \in table : EntryEqual(e, key)
    ELSE NoEntry

HashTableAddOverwrite(table, new) ==
    {e \in table : ~EntryEqual(e, new)} \cup {new}

\* hashTableAdd: the table after the add; an equal entry already stored is kept
\* and the new one is not added
HashTableAdd(table, new) ==
    IF \E e \in table : EntryEqual(e, new) THEN table ELSE table \cup {new}

\* hashTableRemove
HashTableRemove(table, key) == {e \in table : ~EntryEqual(e, key)}

NeverFound(findObject) == FALSE

\* the test of findObject in doubleMapArraylets
FoundInTable(findObject) == findObject # NoEntry

\* per call: kind - "new" when the object had never been mapped when the call
\* started, "reuse" when its last mapping had been released, "other" when it was
\* mapped or another thread has been mapping the same object during the call;
\* addFailed - hashTableAdd could not allocate a node; buffer - what points
\* to the buffer the call got from malloc: "local" for the local variable
\* arrayletLeaveAddrs only, "stored" once a registry entry holds the pointer,
\* "none" before the call ("freed" would follow a free of the buffer, which
\* doubleMapArraylets does not contain)
NoCallInfo == [kind |-> "other", addFailed |-> FALSE, buffer |-> "none"]

\* malloc and free, counted
Malloc(allocated) == allocated + 1

\* free((void *)arrayletLeaveAddrs) with the pointer kept in the entry
\* freeDoubleMap is called for; free(NULL) does nothing
Free(allocated, entry) == IF entry = NoEntry THEN allocated ELSE allocated - 1

\* addrEntry.arrayletLeaveAddrs = arrayletLeaveAddrs, and hashTableAdd copying
\* addrEntry into the table: from then on the entry holds the pointer
BufferAfterAdd(buffer, inserted) == IF inserted THEN "stored" ELSE buffer

KindOfCall(state, alone) ==
    IF ~alone THEN "other"
    ELSE CASE state = "unmapped" -> "new"
           [] state = "released" -> "reuse"
           [] state = "mapped" -> "other"

NoRelease == [removed |-> NoEntry, removedLocked |-> FALSE, entryAtUnmap |-> FALSE,
              unmapArgs |-> [addr |-> NULL, size |-> 0, identifier |-> NoIdentifier],
              unmapOk |-> FALSE, freed |-> FALSE]

\* positions of a thread inside doubleMapArraylets
MappingPcs == {"doubleMap", "find", "acquire", "add"}

\* positions of a thread inside the release path
ReleasePcs == {"relAcquire", "relRemove", "relFree"}

Aborted == \E t \in Threads : pc[t] = "aborted"

InitRegistry ==
    /\ pc = [t \in Threads |-> "idle"]
    /\ objectPtr = [t \in Threads |-> NULL]
    /\ result = [t \in Threads |-> NULL]
    /\ addrEntry = [t \in Threads |-> NoEntry]
    /\ arrayletLeaveAddrs = [t \in Threads |-> <<>>]
    /\ arrayletLock = NULL
    /\ arrayletHashTable = {}
    /\ liveMaps = {}
    /\ callInfo = [t \in Threads |-> NoCallInfo]
    /\ released = [t \in Threads |-> NoRelease]
    /\ mapState = [o \in Objects |-> "unmapped"]
    /\ calls = 0
    /\ leafBuffers = 0

(***************************************************************************)
(* MM_GCExtensions::doubleMapArraylets                                     *)
(***************************************************************************)
\* a thread calls doubleMapArraylets(env, objectPtr); an object that is being
\* reclaimed (its mapping is being released) is not mapped by anyone
CallDoubleMapArraylets(t, o) ==
    /\ ~Aborted
    /\ pc[t] = "idle"
    /\ calls < MaxCalls
    /\ calls' = calls + 1
    /\ ~\E u \in Threads : pc[u] \in ReleasePcs \cup {"relDone"} /\ objectPtr[u] = o
    /\ pc' = [pc EXCEPT ![t] = "doubleMap"]
    /\ objectPtr' = [objectPtr EXCEPT ![t] = o]
    /\ LET others == {u \in Threads \ {t} : pc[u] \in MappingPcs /\ objectPtr[u] = o}
       IN callInfo' = [u \in Threads |->
                         IF u = t
                         THEN [NoCallInfo EXCEPT
                                 !.kind = KindOfCall(mapState[o], others = {}),
                                 !.buffer = "local"]
                         ELSE IF u \in others
                         THEN [callInfo[u] EXCEPT !.kind = "other"]
                         ELSE callInfo[u]]
    /\ UNCHANGED <<result, addrEntry, arrayletLock, arrayletHashTable, liveMaps,
                   released, mapState>>
    /\ arrayletLeaveAddrs' = [arrayletLeaveAddrs EXCEPT ![t] = LeavesOfIterator(o)]
    /\ leafBuffers' = Malloc(leafBuffers)
    /\ UNCHANGED layoutVars
    /\ UNCHANGED auxVars

\* heap->doubleMapArraylet and the "Double map failed" return
DoubleMapNeverFailed(res) == FALSE

\* if (result == NULL) { /* Double map failed */ return NULL; }
DoubleMapFailed(res) == res = NULL

HeapDoubleMapArraylet(t) ==
    /\ ~Aborted
    /\ pc[t] = "doubleMap"
    /\ \E res \in {NULL} \cup FreshAlias(liveMaps) :
          IF DoubleMapFailed(res)
          THEN /\ pc' = [pc EXCEPT ![t] = "ret"]
               /\ result' = [result EXCEPT ![t] = NULL]
               /\ UNCHANGED <<addrEntry, liveMaps>>
          ELSE LET elementsSize == GetDataSizeInBytes(objectPtr[t])
               IN /\ pc' = [pc EXCEPT ![t] = "find"]
                  /\ result' = [result EXCEPT ![t] = res]
                  /\ liveMaps' = liveMaps \cup {res}
                  /\ addrEntry' = [addrEntry EXCEPT ![t] =
                                     MakeAddrEntry(objectPtr[t], res,
                                                   MappedIdentifier(res, elementsSize),
                                                   elementsSize)]
    /\ UNCHANGED <<objectPtr, arrayletLock, arrayletHashTable, callInfo,
                   released, mapState>>
    /\ UNCHANGED <<calls, leafBuffers>>
    /\ UNCHANGED arrayletLeaveAddrs
    /\ UNCHANGED layoutVars
    /\ UNCHANGED auxVars

\* hashTableFind(arrayletHashTable, &addrEntry), made without the lock; while
\* another thread is changing the table the lookup can miss a stored entry
FindInTable(t) ==
    /\ ~Aborted
    /\ pc[t] = "find"
    /\ LET racing == arrayletLock # NULL
           stored == HashTableFind(arrayletHashTable, addrEntry[t])
       IN \E findObject \in (IF racing THEN {stored, NoEntry} ELSE {stored}) :
             /\ IF FoundInTable(findObject)
                THEN /\ result' = [result EXCEPT ![t] = NULL]
                     /\ pc' = [pc EXCEPT ![t] = "ret"]
                ELSE /\ pc' = [pc EXCEPT ![t] = "acquire"]
                     /\ UNCHANGED result
    /\ UNCHANGED <<objectPtr, addrEntry, arrayletLock, arrayletHashTable, liveMaps,
                   callInfo, released, mapState>>
    /\ UNCHANGED <<calls, leafBuffers>>
    /\ UNCHANGED arrayletLeaveAddrs
    /\ UNCHANGED layoutVars
    /\ UNCHANGED auxVars

\* _arrayletLock.acquire()
AcquireLock(t) ==
    /\ ~Aborted
    /\ pc[t] = "acquire"
    /\ arrayletLock = NULL
    /\ arrayletLock' = t
    /\ pc' = [pc EXCEPT ![t] = "add"]
    /\ UNCHANGED <<objectPtr, result, addrEntry, arrayletHashTable, liveMaps,
                   callInfo, released, mapState>>
    /\ UNCHANGED <<calls, leafBuffers>>
    /\ UNCHANGED arrayletLeaveAddrs
    /\ UNCHANGED layoutVars
    /\ UNCHANGED auxVars

KeepLock(holder) == holder

\* _arrayletLock.release(): the lock has no holder afterwards
ReleaseLock(holder) == NULL

\* hashTableAdd, _arrayletLock.release() and the test of the returned entry;
\* hashTableAdd returns NULL when it cannot allocate a node
AddAndRelease(t) ==
    /\ ~Aborted
    /\ pc[t] = "add"
    /\ arrayletLock = t
    /\ \E outOfMemory \in BOOLEAN :
          LET tableAfter == IF outOfMemory THEN arrayletHashTable
                            ELSE HashTableAdd(arrayletHashTable, addrEntry[t])
              entry == IF outOfMemory THEN NoEntry
                       ELSE HashTableFind(tableAfter, addrEntry[t])
          IN /\ arrayletHashTable' = tableAfter
             /\ result' = [result EXCEPT ![t] =
                              IF entry = NoEntry THEN NULL ELSE result[t]]
             /\ callInfo' = [callInfo EXCEPT
                               ![t].addFailed = outOfMemory,
                               ![t].buffer =
                                   BufferAfterAdd(@, tableAfter # arrayletHashTable)]
             /\ mapState' = IF tableAfter # arrayletHashTable
                             THEN [mapState EXCEPT ![objectPtr[t]] = "mapped"]
                             ELSE mapState
    /\ arrayletLock' = ReleaseLock(t)
    /\ pc' = [pc EXCEPT ![t] = "ret"]
    /\ UNCHANGED <<objectPtr, addrEntry, liveMaps, released>>
    /\ UNCHANGED <<calls, leafBuffers>>
    /\ UNCHANGED arrayletLeaveAddrs
    /\ UNCHANGED layoutVars
    /\ UNCHANGED auxVars

\* the caller takes the returned value; the thread is free for its next call
Return(t) ==
    /\ ~Aborted
    /\ pc[t] \in {"ret", "relDone"}
    /\ pc' = [pc EXCEPT ![t] = "idle"]
    /\ objectPtr' = [objectPtr EXCEPT ![t] = NULL]
    /\ result' = [result EXCEPT ![t] = NULL]
    /\ addrEntry' = [addrEntry EXCEPT ![t] = NoEntry]
    /\ callInfo' = [callInfo EXCEPT ![t] = NoCallInfo]
    /\ released' = [released EXCEPT ![t] = NoRelease]
    /\ UNCHANGED <<arrayletLock, arrayletHashTable, liveMaps, mapState>>
    /\ UNCHANGED <<calls, leafBuffers>>
    /\ arrayletLeaveAddrs' = [arrayletLeaveAddrs EXCEPT ![t] = <<>>]
    /\ UNCHANGED layoutVars
    /\ UNCHANGED auxVars

(***************************************************************************)
(* Release of a mapping: the entry is removed from the registry under the  *)
(* lock, then MM_GCExtensions::freeDoubleMap unmaps the alias.             *)
(***************************************************************************)
\* the owning object is reclaimed: its mapping is released once, by one thread,
\* while nobody else is mapping or releasing that object
CallRelease(t, o) ==
    /\ ~Aborted
    /\ pc[t] = "idle"
    /\ calls < MaxCalls
    /\ calls' = calls + 1
    /\ \E e \in arrayletHashTable : e.heapAddr = o
    /\ ~\E u \in Threads : pc[u] # "idle" /\ objectPtr[u] = o
    /\ pc' = [pc EXCEPT ![t] = "relAcquire"]
    /\ objectPtr' = [objectPtr EXCEPT ![t] = o]
    /\ UNCHANGED <<result, addrEntry, arrayletLock, arrayletHashTable, liveMaps,
                   callInfo, released, mapState, leafBuffers>>
    /\ UNCHANGED arrayletLeaveAddrs
    /\ UNCHANGED layoutVars
    /\ UNCHANGED auxVars

ReleaseAcquire(t) ==
    /\ ~Aborted
    /\ pc[t] = "relAcquire"
    /\ arrayletLock = NULL
    /\ arrayletLock' = t
    /\ pc' = [pc EXCEPT ![t] = "relRemove"]
    /\ UNCHANGED <<objectPtr, result, addrEntry, arrayletHashTable, liveMaps,
                   callInfo, released, mapState>>
    /\ UNCHANGED <<calls, leafBuffers>>
    /\ UNCHANGED arrayletLeaveAddrs
    /\ UNCHANGED layoutVars
    /\ UNCHANGED auxVars

\* the entry for the object is looked up and removed, then the lock is released
ReleaseRemove(t) ==
    /\ ~Aborted
    /\ pc[t] = "relRemove"
    /\ arrayletLock = t
    /\ LET key == [NoEntry EXCEPT !.heapAddr = objectPtr[t]]
           stored == HashTableFind(arrayletHashTable, key)
       IN /\ released' = [released EXCEPT ![t].removed = stored,
                                          ![t].removedLocked = (arrayletLock = t)]
          /\ arrayletHashTable' = HashTableRemove(arrayletHashTable, key)
    /\ arrayletLock' = NULL
    /\ pc' = [pc EXCEPT ![t] = "relFree"]
    /\ UNCHANGED <<objectPtr, result, addrEntry, liveMaps, callInfo, mapState>>
    /\ UNCHANGED <<calls, leafBuffers>>
    /\ UNCHANGED arrayletLeaveAddrs
    /\ UNCHANGED layoutVars
    /\ UNCHANGED auxVars

UnmapNothing(contiguousAddr, dataS, identifier) ==
    [addr |-> contiguousAddr, size |-> 0, identifier |-> identifier]

\* the arguments freeDoubleMap hands to j9vmem_free_memory
VmemFreeArgs(contiguousAddr, dataS, identifier) ==
    [addr |-> contiguousAddr, size |-> dataS, identifier |-> identifier]

\* MM_GCExtensions::freeDoubleMap, called with the fields of the removed entry:
\* it returns whether j9vmem_free_memory succeeded (kept in released[t].freed);
\* a build that compiles the assert in stops the process when it did not
FreeDoubleMap(t) ==
    /\ ~Aborted
    /\ pc[t] = "relFree"
    /\ \E unmapOk \in BOOLEAN, assertCompiledIn \in BOOLEAN :
          LET e == released[t].removed
              args == VmemFreeArgs(e.contiguousAddr, e.dataSize, e.identifier)
          IN /\ released' = [released EXCEPT
                               ![t].unmapArgs = args,
                               ![t].unmapOk = unmapOk,
                               ![t].freed = unmapOk,
                               ![t].entryAtUnmap =
                                   (\E x \in arrayletHashTable :
                                       x.heapAddr = objectPtr[t])]
             /\ liveMaps' = IF unmapOk /\ (args.size = args.identifier.size)
                            THEN liveMaps \ {args.identifier.address}
                            ELSE liveMaps
             /\ pc' = [pc EXCEPT ![t] = IF ~unmapOk /\ assertCompiledIn
                                        THEN "aborted" ELSE "relDone"]
    /\ mapState' = [mapState EXCEPT ![objectPtr[t]] = "released"]
    /\ leafBuffers' = Free(leafBuffers, released[t].removed)
    /\ UNCHANGED <<objectPtr, result, addrEntry, arrayletLock, arrayletHashTable,
                   callInfo>>
    /\ UNCHANGED calls
    /\ UNCHANGED arrayletLeaveAddrs
    /\ UNCHANGED layoutVars
    /\ UNCHANGED auxVars

NextRegistry ==
    \/ \E t \in Threads, o \in Objects : CallDoubleMapArraylets(t, o)
    \/ \E t \in Threads : HeapDoubleMapArraylet(t)
    \/ \E t \in Threads : FindInTable(t)
    \/ \E t \in Threads : AcquireLock(t)
    \/ \E t \in Threads : AddAndRelease(t)
    \/ \E t \in Threads : Return(t)
    \/ \E t \in Threads, o \in Objects : CallRelease(t, o)
    \/ \E t \in Threads : ReleaseAcquire(t)
    \/ \E t \in Threads : ReleaseRemove(t)
    \/ \E t \in Threads : FreeDoubleMap(t)

\* no full-size array is being laid out
NoExample ==
    [pc |-> "off", elementCount |-> 0, elementSize |-> 0, arrayletLeafSize |-> 0,
     dataSize |-> 0, numberOfArraylets |-> 0, bytesRemaining |-> 0,
     arrayoidIndex |-> 0, arrayoid |-> <<>>, leafAllocs |-> 0,
     lastLeafBytes |-> 0, trailingNull |-> FALSE]

\* no MM_GCExtensions is being constructed
NoExtensions ==
    [pc |-> "off", virtualized |-> FALSE, aggressive |-> FALSE,
     idleTuningGC |-> FALSE, idleTuningCompact |-> FALSE,
     gcOnIdle |-> FALSE, compactOnIdle |-> FALSE,
     arrayletHashTable |-> "NULL", lockInitialized |-> FALSE,
     heapFreeMinimumRatioMultiplier |-> 0, padToPageSize |-> FALSE,
     tearDowns |-> 0, freed |-> FALSE, initResult |-> "notYet",
     instance |-> "notYet"]

\* no copy-forward task is running
NoTask == [pc |-> "off", action |-> "none", phases |-> <<>>, finished |-> <<>>]

\* no identity-hash range call is being followed
NoHashData ==
    [pc |-> "off", hashData1 |-> 0, hashData2 |-> 0, calls |-> 0, last |-> "none",
     premise |-> TRUE]

Init ==
    /\ InitLayout
    /\ InitRegistry
    /\ example = NoExample
    /\ extensions = NoExtensions
    /\ task = NoTask
    /\ hashData = NoHashData

\* the registry on its own: no array is being laid out meanwhile
NoLayoutRequest ==
    /\ layout = "InlineContiguous"
    /\ numberOfIndexedFields = 0
    /\ numberOfArraylets = 1
    /\ allocatable
    /\ gcAllowed
    /\ doubleMappingEnabled
    /\ ~desc.preHashFlag

InitRegistryOnly == Init /\ NoLayoutRequest

SpecRegistry == InitRegistryOnly /\ [][NextRegistry]_vars

\* every thread that can take a step of its call eventually takes it, and the
\* lock is fair: a thread that finds the lock free again and again gets it
FairRegistry ==
    \A t \in Threads :
        /\ WF_vars(HeapDoubleMapArraylet(t))
        /\ WF_vars(FindInTable(t))
        /\ SF_vars(AcquireLock(t))
        /\ WF_vars(AddAndRelease(t))
        /\ WF_vars(Return(t))
        /\ SF_vars(ReleaseAcquire(t))
        /\ WF_vars(ReleaseRemove(t))
        /\ WF_vars(FreeDoubleMap(t))

SpecRegistryFair == SpecRegistry /\ FairRegistry

(***************************************************************************)
(* layoutDiscontiguousArraylet for Discontiguous arrays of full size: the  *)
(* byte and slot counting of the leaf loop and of the step after it.       *)
(***************************************************************************)
\* a Discontiguous request at the entry of the leaf loop: bytesRemaining is
\* bytesRequested - contiguousBytes, which is the data size for this layout
ExampleRequest(count, size, leafSize, n) ==
    [pc |-> "leafLoop", elementCount |-> count, elementSize |-> size,
     arrayletLeafSize |-> leafSize, dataSize |-> count * size,
     numberOfArraylets |-> n, bytesRemaining |-> count * size,
     arrayoidIndex |-> 0, arrayoid |-> <<>>, leafAllocs |-> 0,
     lastLeafBytes |-> 0, trailingNull |-> FALSE]

\* the requests: element counts around 10000, two element sizes, two leaf
\* sizes, and the arraylet counts the constructor can hand over (the number of
\* leaves that hold data, and one more than the number of full leaves)
ExampleRequests ==
    UNION {{ExampleRequest(count, size, leafSize, n) :
                n \in {RoundToCeiling(leafSize, count * size) \div leafSize,
                        ((count * size) \div leafSize) + 1}} :
           count \in {9999, 10000, 10240}, size \in {4, 8}, leafSize \in {4096, 8192}}

InitExample ==
    /\ InitLayout
    /\ InitRegistry
    /\ NoLayoutRequest
    /\ example \in ExampleRequests
    /\ extensions = NoExtensions
    /\ task = NoTask
    /\ hashData = NoHashData

\* one iteration of the leaf loop
ExampleAllocateLeaf ==
    /\ example.pc = "leafLoop"
    /\ 0 < example.bytesRemaining
    /\ \E leafOk \in BOOLEAN :
          IF ~leafOk
          THEN example' = [example EXCEPT !.pc = "leafFailed",
                                          !.leafAllocs = @ + 1]
          ELSE LET bytes == LeafBytes(example.bytesRemaining, example.arrayletLeafSize)
               IN example' = [example EXCEPT
                                 !.leafAllocs = @ + 1,
                                 !.arrayoid = Append(@, LeafRef(example.leafAllocs + 1)),
                                 !.lastLeafBytes = bytes,
                                 !.bytesRemaining = @ - bytes,
                                 !.arrayoidIndex = @ + 1]
    /\ UNCHANGED <<layoutVars, registryVars, extensions, task, hashData>>

\* the Discontiguous case after the loop: its assertions and the NULL written
\* into the last slot when the last arraylet holds no data
ExamplePostLoop ==
    /\ example.pc = "leafLoop"
    /\ example.bytesRemaining = 0
    /\ LET lastLeafEmpty == example.arrayoidIndex = (example.numberOfArraylets - 1)
       IN IF ~PostLoopAssertionsFor(example.arrayletLeafSize, lastLeafEmpty,
                                    example.arrayoidIndex, example.numberOfArraylets,
                                    example.dataSize)
          THEN example' = [example EXCEPT !.pc = "assertFailed"]
          ELSE example' = [example EXCEPT
                              !.pc = "built",
                              !.arrayoid = IF lastLeafEmpty THEN Append(@, NullRef)
                                           ELSE @,
                              !.trailingNull = lastLeafEmpty]
    /\ UNCHANGED <<layoutVars, registryVars, extensions, task, hashData>>

NextExample ==
    \/ ExampleAllocateLeaf
    \/ ExamplePostLoop

SpecExample == InitExample /\ [][NextExample]_vars

(***************************************************************************)
(* MM_GCExtensions::newInstance and MM_GCExtensions::initialize            *)
(***************************************************************************)
\* newInstance is entered; the runtime flags and the idle tuning flags of the VM
\* are inputs
InitConstruct ==
    /\ InitLayout
    /\ InitRegistry
    /\ NoLayoutRequest
    /\ example = NoExample
    /\ task = NoTask
    /\ hashData = NoHashData
    /\ \E v \in BOOLEAN, a \in BOOLEAN, g \in BOOLEAN, c \in BOOLEAN :
          extensions = [NoExtensions EXCEPT !.pc = "allocate",
                                            !.virtualized = v, !.aggressive = a,
                                            !.idleTuningGC = g,
                                            !.idleTuningCompact = c]

\* goto failed: tearDown(env); return false
GotoFailed(e) ==
    [e EXCEPT !.pc = "initReturned", !.tearDowns = @ + 1, !.initResult = "false"]

\* j9mem_allocate_memory for the extensions; without memory newInstance returns
\* NULL and initialize is not called
NewInstanceAllocate ==
    /\ extensions.pc = "allocate"
    /\ \E allocated \in BOOLEAN :
          extensions' = IF allocated
                        THEN [extensions EXCEPT !.pc = "baseInit"]
                        ELSE [extensions EXCEPT !.pc = "returned", !.instance = "NULL"]
    /\ UNCHANGED <<layoutVars, registryVars, example, task, hashData>>

\* if (!MM_GCExtensionsBase::initialize(env)) goto failed
InitializeBase ==
    /\ extensions.pc = "baseInit"
    /\ \E ok \in BOOLEAN :
          extensions' = IF ok THEN [extensions EXCEPT !.pc = "hashTableNew"]
                        ELSE GotoFailed(extensions)
    /\ UNCHANGED <<layoutVars, registryVars, example, task, hashData>>

\* arrayletHashTable = hashTableNew(...), NULL when it cannot be created
HashTableNew ==
    /\ extensions.pc = "hashTableNew"
    /\ \E created \in {"NULL", "table"} :
          extensions' = [extensions EXCEPT !.pc = "lockInit",
                                           !.arrayletHashTable = created]
    /\ UNCHANGED <<layoutVars, registryVars, example, task, hashData>>

LockOnlyCreated(lockOk, table) == lockOk

\* the negation of
\* !_arrayletLock.initialize(...) || (arrayletHashTable == NULL)
RegistryCreated(lockOk, table) == lockOk /\ (table # "NULL")

\* _arrayletLock.initialize and the test of both creations
ArrayletLockInitialize ==
    /\ extensions.pc = "lockInit"
    /\ \E lockOk \in BOOLEAN :
          LET e == [extensions EXCEPT !.lockInitialized = lockOk]
          IN extensions' = IF RegistryCreated(lockOk, extensions.arrayletHashTable)
                           THEN [e EXCEPT !.pc = "hooks"]
                           ELSE GotoFailed(e)
    /\ UNCHANGED <<layoutVars, registryVars, example, task, hashData>>

\* the settings taken from the runtime flags and J9HookInitializeInterface
InitializeHookInterface ==
    /\ extensions.pc = "hooks"
    /\ \E hookFailed \in BOOLEAN :
          LET e == [extensions EXCEPT
                       !.heapFreeMinimumRatioMultiplier =
                           IF extensions.virtualized THEN 20 ELSE @,
                       !.padToPageSize = extensions.aggressive]
          IN extensions' = IF hookFailed THEN GotoFailed(e)
                           ELSE [e EXCEPT !.pc = "asyncEvents"]
    /\ UNCHANGED <<layoutVars, registryVars, example, task, hashData>>

\* J9RegisterAsyncEvent twice; a negative key fails the initialization,
\* otherwise the idle tuning flags are absorbed and initialize returns true
RegisterAsyncEvents ==
    /\ extensions.pc = "asyncEvents"
    /\ \E asyncKeyOk \in BOOLEAN, tlhKeyOk \in BOOLEAN :
          extensions' = IF asyncKeyOk /\ tlhKeyOk
                        THEN [extensions EXCEPT
                                 !.pc = "initReturned",
                                 !.gcOnIdle = extensions.idleTuningGC,
                                 !.compactOnIdle = extensions.idleTuningCompact,
                                 !.initResult = "true"]
                        ELSE GotoFailed(extensions)
    /\ UNCHANGED <<layoutVars, registryVars, example, task, hashData>>

\* newInstance after initialize: kill (tearDown and free) and NULL when it
\* returned false, the extensions otherwise
NewInstanceReturn ==
    /\ extensions.pc = "initReturned"
    /\ extensions' = IF extensions.initResult = "false"
                      THEN [extensions EXCEPT !.pc = "returned",
                                              !.tearDowns = @ + 1,
                                              !.freed = TRUE,
                                              !.instance = "NULL"]
                      ELSE [extensions EXCEPT !.pc = "returned",
                                              !.instance = "extensions"]
    /\ UNCHANGED <<layoutVars, registryVars, example, task, hashData>>

NextConstruct ==
    \/ NewInstanceAllocate
    \/ InitializeBase
    \/ HashTableNew
    \/ ArrayletLockInitialize
    \/ InitializeHookInterface
    \/ RegisterAsyncEvents
    \/ NewInstanceReturn

SpecConstruct == InitConstruct /\ [][NextConstruct]_vars

(***************************************************************************)
(* MM_ConcurrentCopyForwardSchemeTask::run                                 *)
(***************************************************************************)
\* the values of _action run knows, and one it does not
CopyForwardActions ==
    {"COPY_FORWARD_ALL", "COPY_FORWARD_ROOTS", "COPY_FORWARD_SCAN",
     "COPY_FORWARD_COMPLETE"}

TaskActions == CopyForwardActions \cup {"OTHER"}

InitTask ==
    /\ InitLayout
    /\ InitRegistry
    /\ NoLayoutRequest
    /\ example = NoExample
    /\ extensions = NoExtensions
    /\ hashData = NoHashData
    /\ task = [NoTask EXCEPT !.pc = "idle"]

\* run is entered for a task with some _action; finished lists the actions of
\* the runs that have returned
TaskRun ==
    /\ task.pc = "idle"
    /\ Len(task.finished) < MaxTaskRuns
    /\ \E a \in TaskActions :
          task' = [task EXCEPT !.pc = "switch", !.action = a, !.phases = <<>>]
    /\ UNCHANGED <<layoutVars, registryVars, example, extensions, hashData>>

FallThroughAfterRoots(action) == "afterRoots"

\* after workThreadProcessRoots: on to workThreadScan in case COPY_FORWARD_ALL,
\* break in case COPY_FORWARD_ROOTS
AfterProcessRoots(action) ==
    IF action = "COPY_FORWARD_ALL" THEN "afterRoots" ELSE "break"

\* _copyForwardScheme->workThreadProcessRoots(env)
WorkThreadProcessRoots ==
    /\ task.pc = "switch"
    /\ task.action \in {"COPY_FORWARD_ALL", "COPY_FORWARD_ROOTS"}
    /\ task' = [task EXCEPT !.phases = Append(@, "roots"),
                            !.pc = AfterProcessRoots(task.action)]
    /\ UNCHANGED <<layoutVars, registryVars, example, extensions, hashData>>

\* _copyForwardScheme->workThreadScan(env)
WorkThreadScan ==
    /\ \/ task.pc = "switch" /\ task.action = "COPY_FORWARD_SCAN"
       \/ task.pc = "afterRoots"
    /\ task' = [task EXCEPT !.phases = Append(@, "scan"),
                            !.pc = IF task.pc = "afterRoots" THEN "afterScan"
                                   ELSE "break"]
    /\ UNCHANGED <<layoutVars, registryVars, example, extensions, hashData>>

\* _copyForwardScheme->workThreadComplete(env)
WorkThreadComplete ==
    /\ \/ task.pc = "switch" /\ task.action = "COPY_FORWARD_COMPLETE"
       \/ task.pc = "afterScan"
    /\ task' = [task EXCEPT !.phases = Append(@, "complete"), !.pc = "break"]
    /\ UNCHANGED <<layoutVars, registryVars, example, extensions, hashData>>

\* default: Assert_MM_unreachable()
TaskAssertUnreachable ==
    /\ task.pc = "switch"
    /\ task.action \notin CopyForwardActions
    /\ task' = [task EXCEPT !.pc = "assertFailed"]
    /\ UNCHANGED <<layoutVars, registryVars, example, extensions, hashData>>

\* run returns
TaskReturn ==
    /\ task.pc = "break"
    /\ task' = [task EXCEPT !.pc = "idle",
                            !.finished = Append(@, task.action)]
    /\ UNCHANGED <<layoutVars, registryVars, example, extensions, hashData>>

NextTask ==
    \/ TaskRun
    \/ WorkThreadProcessRoots
    \/ WorkThreadScan
    \/ WorkThreadComplete
    \/ TaskAssertUnreachable
    \/ TaskReturn

SpecTask == InitTask /\ [][NextTask]_vars

(***************************************************************************)
(* MM_GCExtensions::identityHashDataAddRange / identityHashDataRemoveRange *)
(***************************************************************************)
\* UDATA is modelled 8 bits wide; every address drawn lies below UDATA_MAX
UDATA_MAX == 255

\* low and high addresses of memory ranges; no range starts at address 0
RangeAddrs == 1..MaxAddr

\* hashData1 and hashData2 before the first expand, as the first-expand
\* assertions require them
InitHash ==
    /\ InitLayout
    /\ InitRegistry
    /\ NoLayoutRequest
    /\ example = NoExample
    /\ extensions = NoExtensions
    /\ task = NoTask
    /\ hashData = [NoHashData EXCEPT !.pc = "ready", !.hashData1 = UDATA_MAX,
                                     !.hashData2 = 0]

\* the body of identityHashDataAddRange under the standard salt policy for a
\* new-space subspace
AddRange(h, lowAddress, highAddress) ==
    IF h.hashData1 = highAddress
      THEN [h EXCEPT !.hashData1 = lowAddress]
      ELSE IF h.hashData2 = lowAddress
        THEN [h EXCEPT !.hashData2 = highAddress]
        ELSE IF UDATA_MAX = h.hashData1 /\ 0 = h.hashData2
          THEN [h EXCEPT !.hashData1 = lowAddress, !.hashData2 = highAddress]
          ELSE [h EXCEPT !.pc = "assertFailed"]

\* the body of identityHashDataRemoveRange under the same two conditions
RemoveRange(h, lowAddress, highAddress) ==
    IF h.hashData1 = lowAddress
      THEN IF h.hashData1 <= highAddress /\ highAddress <= h.hashData2
             THEN [h EXCEPT !.hashData1 = highAddress]
             ELSE [h EXCEPT !.pc = "assertFailed"]
      ELSE IF h.hashData2 = highAddress
        THEN IF h.hashData1 <= lowAddress /\ lowAddress <= h.hashData2
               THEN [h EXCEPT !.hashData2 = lowAddress]
               ELSE [h EXCEPT !.pc = "assertFailed"]
        ELSE [h EXCEPT !.pc = "assertFailed"]

\* no range recorded, or the recorded range [hashData1, hashData2) has no byte
RecordedRangeEmpty(h) ==
    \/ h.hashData1 = UDATA_MAX /\ h.hashData2 = 0
    \/ h.hashData1 = h.hashData2

\* the added range touches the recorded one, or nothing is recorded
AddedRangeAllowed(h, lowAddress, highAddress) ==
    \/ h.hashData1 = highAddress
    \/ h.hashData2 = lowAddress
    \/ RecordedRangeEmpty(h)

\* the removed range is a prefix or a suffix of the recorded one
RemovedRangeAllowed(h, lowAddress, highAddress) ==
    /\ h.hashData1 <= h.hashData2
    /\ \/ lowAddress = h.hashData1 /\ highAddress <= h.hashData2
       \/ highAddress = h.hashData2 /\ h.hashData1 <= lowAddress

IdentityHashDataAddRange ==
    /\ hashData.pc = "ready"
    /\ hashData.calls < MaxRangeCalls
    /\ \E standard \in BOOLEAN, newSpace \in BOOLEAN,
          lowAddress \in RangeAddrs, highAddress \in RangeAddrs :
          /\ lowAddress < highAddress
          /\ hashData' =
               IF standard /\ newSpace
                 THEN [AddRange(hashData, lowAddress, highAddress) EXCEPT
                         !.calls = @ + 1, !.last = "add",
                         !.premise = @ /\ AddedRangeAllowed(hashData, lowAddress,
                                                            highAddress)]
                 ELSE [hashData EXCEPT !.calls = @ + 1]
    /\ UNCHANGED <<layoutVars, registryVars, example, extensions, task>>

IdentityHashDataRemoveRange ==
    /\ hashData.pc = "ready"
    /\ hashData.calls < MaxRangeCalls
    /\ \E standard \in BOOLEAN, newSpace \in BOOLEAN,
          lowAddress \in RangeAddrs, highAddress \in RangeAddrs :
          /\ lowAddress < highAddress
          /\ hashData' =
               IF standard /\ newSpace
                 THEN [RemoveRange(hashData, lowAddress, highAddress) EXCEPT
                         !.calls = @ + 1, !.last = "remove",
                         !.premise = @ /\ RemovedRangeAllowed(hashData, lowAddress,
                                                              highAddress)]
                 ELSE [hashData EXCEPT !.calls = @ + 1]
    /\ UNCHANGED <<layoutVars, registryVars, example, extensions, task>>

NextHash ==
    \/ IdentityHashDataAddRange
    \/ IdentityHashDataRemoveRange

SpecHash == InitHash /\ [][NextHash]_vars

NextLayout ==
    \/ InitializeAllocateDescription
    \/ InitializeIndexableObject
    \/ AllocateLeafAndLink
    \/ PostLoopDiscontiguous
    \/ PostLoopHybrid
    \/ FinishInitialize

SpecLayout == Init /\ [][NextLayout]_vars

\* the thread that runs the allocation keeps running: a step of the function
\* that can be taken is taken, and allocateArrayletLeaf returns
SpecLayoutFair == SpecLayout /\ WF_vars(NextLayout)

(***************************************************************************)
(* Leaf linking under a relocating collector                               *)
(***************************************************************************)
\* C1: every arrayoid slot write (the per-leaf write of the loop, the NULL write
\* after the loop for Discontiguous, the remainder-pointer write for Hybrid) goes
\* through the spine address that is current after the most recent leaf
\* allocation: no write targets an address the spine has been moved away from.
C1_WritesGoThroughRefreshedSpine ==
    \A i \in 1..Len(writes) : writes[i].addr = writes[i].live

\* the spine moved between the first write and a later write made after the loop
C1_Witness ==
    /\ Len(writes) >= 2
    /\ writes[1].addr # writes[Len(writes)].addr
    /\ writes[Len(writes)].val.kind # "leaf"
    /\ lpc = "done"

\* C10: when the leaf allocation at index k returns NULL, the description's spine
\* and the local spine are NULL, no further leaf is requested, exactly k slots
\* were written, double mapping is not attempted, the hash slot is not
\* initialized and initializeIndexableObject returns NULL.
C10_LeafFailureAbandonsSpine ==
    (failedAt # NotYet) =>
        /\ desc.spine = NULL
        /\ spine = NULL
        /\ leafAllocs = failedAt + 1
        /\ Len(writes) = failedAt
        /\ dmCalls = <<>>
        /\ dmResult = NotYet
        /\ hashInit = FALSE
        /\ lpc \in {"hashSlot", "done"}
        /\ (lpc = "done") => (returned = NULL)

\* a failure after at least one leaf was linked, with the call returned
C10_Witness ==
    /\ failedAt >= 1
    /\ lpc = "done"
    /\ desc.preHashFlag
    /\ doubleMappingEnabled

(***************************************************************************)
(* The double-map registry                                                 *)
(***************************************************************************)
EntriesFor(o) == {e \in arrayletHashTable : e.heapAddr = o}

\* thread t takes a step of doubleMapArraylets
MappingStep(t) == pc[t] \in MappingPcs /\ pc'[t] # pc[t]

UniqueKeys ==
    \A e1, e2 \in arrayletHashTable : (e1.heapAddr = e2.heapAddr) => (e1 = e2)

\* C2: the registry holds at most one entry per heapAddr, and no step of a
\* doubleMapArraylets call changes or drops an entry that is already stored
\* (a call for a key that is present is rejected, not overwritten).
C2_OneEntryPerKeyNeverOverwritten ==
    /\ UniqueKeys
    /\ [][/\ UniqueKeys'
          /\ \A t \in Threads :
                MappingStep(t) => (\A e \in arrayletHashTable : e \in arrayletHashTable')
         ]_vars

\* a call for a key that was present has gone through its insert and returned,
\* and the entry stored first is still the one in the table
C2_Witness ==
    \E t \in Threads :
        /\ pc[t] = "ret"
        /\ addrEntry[t] # NoEntry
        /\ callInfo[t].kind = "other"
        /\ ~callInfo[t].addFailed
        /\ result[t] # NULL
        /\ \E e \in EntriesFor(objectPtr[t]) :
              e.contiguousAddr # addrEntry[t].contiguousAddr

\* C3: a doubleMapArraylets call for an object whose entry is in the registry
\* (an earlier call inserted it and it has not been released) returns NULL at
\* its lookup, and the registry then holds exactly one entry for the object.
\* The lookup is the one of a call that no other thread's table update overlaps.
C3_SecondCallRejected ==
    [][\A t \in Threads :
          ( /\ pc[t] = "find"
            /\ pc'[t] # "find"
            /\ arrayletLock = NULL
            /\ EntriesFor(objectPtr[t]) # {} )
          => /\ pc'[t] = "ret"
             /\ result'[t] = NULL
             /\ Cardinality({e \in arrayletHashTable' : e.heapAddr = objectPtr[t]}) = 1
      ]_vars

\* a second call was rejected at its lookup: its own alias is not the stored one
C3_Witness ==
    \E t \in Threads :
        /\ pc[t] = "ret"
        /\ addrEntry[t] # NoEntry
        /\ result[t] = NULL
        /\ ~callInfo[t].addFailed
        /\ mapState[objectPtr[t]] = "mapped"
        /\ \E e \in EntriesFor(objectPtr[t]) :
              e.contiguousAddr # addrEntry[t].contiguousAddr

\* C4: when doubleMapArraylets returns NULL after the double-map primitive
\* succeeded, the alias mapping that call created has been unmapped.
C4_NoAliasLeakOnNullReturn ==
    \A t \in Threads :
        (pc[t] = "ret" /\ result[t] = NULL /\ addrEntry[t] # NoEntry)
        => (addrEntry[t].contiguousAddr \notin liveMaps)

\* C5: every step that reads or changes the registry table (the lookup for a
\* duplicate, the insert, the removal) is taken by a thread that holds
\* _arrayletLock.
C5_TableAccessUnderLock ==
    [][\A t \in Threads :
          (pc[t] \in {"find", "add", "relRemove"} /\ pc'[t] # pc[t])
          => (arrayletLock = t)
      ]_vars

\* C6: of two doubleMapArraylets calls for the same object at most one returns
\* a non-NULL alias, and a returned alias is the contiguousAddr of the entry
\* stored for the object.
C6_OneWinnerPerKey ==
    \A t \in Threads :
        (pc[t] = "ret" /\ result[t] # NULL)
        => /\ \A e \in EntriesFor(objectPtr[t]) : e.contiguousAddr = result[t]
           /\ \A u \in Threads \ {t} :
                 (pc[u] = "ret" /\ objectPtr[u] = objectPtr[t]) => (result[u] = NULL)

\* C7: a call for an object that no other thread is mapping, whose primitive and
\* insert succeed, returns a non-NULL alias; the registry then holds exactly one
\* entry for the object, with that alias, and no other returned call holds the
\* same alias.
C7_DistinctKeysAllSucceed ==
    \A t \in Threads :
        ( /\ pc[t] = "ret"
          /\ callInfo[t].kind = "new"
          /\ addrEntry[t] # NoEntry
          /\ ~callInfo[t].addFailed )
        => /\ result[t] # NULL
           /\ EntriesFor(objectPtr[t]) = {addrEntry[t]}
           /\ addrEntry[t].contiguousAddr = result[t]
           /\ \A u \in Threads \ {t} :
                 (pc[u] = "ret" /\ result[u] # NULL) => (result[u] # result[t])

\* all threads have returned from calls for pairwise distinct objects
C7_Witness ==
    /\ \A t \in Threads :
          /\ pc[t] = "ret"
          /\ callInfo[t].kind = "new"
          /\ result[t] # NULL
    /\ \A t, u \in Threads : (t # u) => (objectPtr[t] # objectPtr[u])
    /\ Cardinality(arrayletHashTable) = NumThreads

LoopCompleted(lay) ==
    /\ layout = lay
    /\ lpc \in {"hashSlot", "done", "leafCountAssertFailed"}
    /\ spine # NULL
    /\ numberOfIndexedFields > 0
    /\ failedAt = NotYet

\* C11: for a Discontiguous layout whose leaf loop completed, either
\* numberOfArraylets - 1 leaves were allocated and the last arrayoid slot
\* (index numberOfArraylets - 1) holds NULL, or numberOfArraylets leaves were
\* allocated and every slot holds a leaf; the slots before the last hold leaves
\* in both cases.
C11_LastLeafEdgeCase ==
    LoopCompleted("Discontiguous") =>
        LET arrayoid == mem[spine]
            n == numberOfArraylets
        IN /\ n >= 1
           /\ IF leafAllocs = n - 1
              THEN /\ arrayoid[n - 1] = NullRef
                   /\ \A i \in 0..(n - 2) : arrayoid[i].kind = "leaf"
              ELSE /\ leafAllocs = n
                   /\ \A i \in 0..(n - 1) : arrayoid[i].kind = "leaf"

\* a built array whose data is a whole number of leaves, at least two
C11_Witness ==
    /\ LoopCompleted("Discontiguous")
    /\ lpc = "done"
    /\ leafAllocs = numberOfArraylets - 1
    /\ leafAllocs >= 2
    /\ heapSpine # writes[1].addr

\* layoutContiguousArraylet: the reference it writes to slot i of a spine with n
\* arraylets, leafOffset starting right behind the arrayoid
LayoutContiguousSlot(base, n, i) == SpineRef(base, n + (i * LeafSize))

\* initializeIndexableObject returned a spine
Built == lpc = "done" /\ returned # NULL

\* slot i of a built Discontiguous or Hybrid array holds the leaf returned by
\* the i-th leaf allocation, and the last slot of a Hybrid array points at the
\* remainder section inside the spine that was returned
LeafSlotsInOrder ==
    (Built /\ layout # "InlineContiguous" /\ numberOfIndexedFields > 0) =>
        /\ \A i \in 0..(leafAllocs - 1) : mem[returned][i] = LeafRef(i + 1)
        /\ (layout = "Hybrid") =>
              /\ leafAllocs = numberOfArraylets - 1
              /\ mem[returned][numberOfArraylets - 1]
                    = SpineRef(returned, numberOfArraylets)

C13_LeafListInSlotOrder ==
    \A c \in 1..Len(dmCalls) :
        \A j \in 0..(Len(dmCalls[c]) - 1) :
            /\ dmCalls[c][j + 1] = mem[heapSpine][j]
            /\ dmCalls[c][j + 1] = LeafRef(j + 1)

\* a list of at least two leaves was handed over, read from a spine that moved
C13_Witness ==
    /\ Len(dmCalls) = 1
    /\ Len(dmCalls[1]) >= 2
    /\ lpc = "done"
    /\ writes[1].addr # heapSpine

\* C14: doubleMapArraylets never hands a NULL leaf address to the double-map
\* primitive: a NULL last arrayoid slot is skipped and not counted. Stated for
\* MM_GCExtensions::doubleMapArraylets, of every call that has reached the
\* primitive.
C14_NoNullLeafPassed ==
    \A t \in Threads :
        (pc[t] \in {"find", "acquire", "add", "ret"}) =>
            \A j \in 1..Len(arrayletLeaveAddrs[t]) : arrayletLeaveAddrs[t][j] # NullRef

\* C15: for a Discontiguous array that layoutDiscontiguousArraylet built and
\* hands to doubleMapArraylets, the leaves collected from the arrayoid are all
\* non-NULL and their number is ceil(dataSize / leafSize), so the assertion
\* arrayletLeafCount == count does not fail; a call that got past the assertion
\* handed exactly that many leaves to the primitive.
C15_LeafCountMatches ==
    /\ lpc # "leafCountAssertFailed"
    /\ \A c \in 1..Len(dmCalls) :
          LET count == Len(dmCalls[c])
          IN /\ count * LeafSize >= dataSize
             /\ (count - 1) * LeafSize < dataSize
             /\ \A j \in 1..count : dmCalls[c][j].kind = "leaf"
             /\ LoopCompleted("Discontiguous")

\* the array handed over has a NULL last slot, which was not counted
C15_Witness ==
    /\ Len(dmCalls) = 1
    /\ lpc = "done"
    /\ mem[heapSpine][numberOfArraylets - 1] = NullRef
    /\ Len(dmCalls[1]) = numberOfArraylets - 1
    /\ Len(dmCalls[1]) >= 2

(***************************************************************************)
(* initializeAllocateDescription                                           *)
(***************************************************************************)
\* initializeAllocateDescription has returned true
Accepted == lpc # "start" /\ allocatable

\* C16: when initializeAllocateDescription accepts a request, the description
\* records bytesRequested = spineBytes + overhead with overhead 0 for
\* Inline-Contiguous, dataSize for Discontiguous and
\* (numberOfArraylets - 1) * leafSize for Hybrid, the computed (aligned) spine
\* size as spineBytes, and numberOfArraylets as numArraylets.
C16_BytesRequestedIsSpinePlusOverhead ==
    Accepted =>
        /\ desc.bytesRequested - desc.spineBytes =
              (CASE layout = "InlineContiguous" -> 0
                 [] layout = "Discontiguous" -> dataSize
                 [] layout = "Hybrid" -> (numberOfArraylets - 1) * LeafSize)
        /\ desc.spineBytes =
              SpineBytesOf(layout, numberOfArraylets, dataSize, desc.preHashFlag)
        /\ desc.spineBytes % ObjectAlignment = 0
        /\ desc.spineBytes >= GetSpineSize(layout, numberOfArraylets, dataSize)
        /\ desc.numArraylets = numberOfArraylets

\* an accepted Hybrid request with leaves outside the spine and a hash slot
C16_Witness ==
    /\ lpc = "described"
    /\ layout = "Hybrid"
    /\ numberOfArraylets >= 2
    /\ desc.preHashFlag
    /\ desc.bytesRequested > desc.spineBytes

\* what the post-loop assertions of the Discontiguous case say of a built array
BuiltAssertionsHold ==
    (Built /\ layout = "Discontiguous" /\ numberOfIndexedFields > 0) =>
        IF leafAllocs = numberOfArraylets - 1
        THEN dataSize % LeafSize = 0
        ELSE /\ dataSize % LeafSize # 0
             /\ leafAllocs = numberOfArraylets

\* C17: for every Discontiguous array that is accepted and built,
\* numberOfArraylets is dataSize / leafSize rounded down, plus one: that is
\* ceil(dataSize / leafSize) when dataSize is not a multiple of leafSize, and one
\* more than it when dataSize is a multiple (the last arraylet is empty); with
\* that value the post-loop assertions hold.
C17_NumberOfArrayletsOfBuiltArray ==
    /\ (Built /\ layout = "Discontiguous") =>
          numberOfArraylets = (dataSize \div LeafSize) + 1
    /\ BuiltAssertionsHold

\* built arrays of both kinds exist: this one is a whole number of leaves
C17_Witness ==
    /\ Built
    /\ layout = "Discontiguous"
    /\ dataSize >= 2 * LeafSize
    /\ dataSize % LeafSize = 0
    /\ leafAllocs = numberOfArraylets - 1

\* C17 as stated: numberOfArraylets of a built Discontiguous array equals
\* ceil(dataSize / leafSize), also when dataSize is a multiple of leafSize, and
\* the post-loop assertions hold.
C17_AsStated ==
    /\ (Built /\ layout = "Discontiguous") =>
          /\ numberOfArraylets * LeafSize >= dataSize
          /\ (numberOfArraylets - 1) * LeafSize < dataSize
    /\ BuiltAssertionsHold

\* initializeAllocateDescription was entered on an allocatable model with at
\* least one arraylet, and has returned or stopped
CalledOnAllocatable == lpc # "start" /\ wasAllocatable /\ numberOfArraylets > 0

\* C18: called on an allocatable model, initializeAllocateDescription returns
\* false and leaves the model not allocatable when the layout is Discontiguous or
\* Hybrid, GC is not allowed and the array is not empty; it accepts a
\* Discontiguous request when GC is allowed or the element count is zero, and it
\* accepts every Inline-Contiguous request.
C18_RejectsWhenLeavesNeedGC ==
    CalledOnAllocatable =>
        /\ (layout # "InlineContiguous" /\ ~gcAllowed /\ numberOfIndexedFields > 0)
              => (lpc = "rejected" /\ ~allocatable /\ desc.bytesRequested = 0)
        /\ (layout = "Discontiguous" /\ (gcAllowed \/ numberOfIndexedFields = 0))
              => (allocatable /\ lpc # "rejected" /\ desc.chunkedArray)
        /\ (layout = "InlineContiguous")
              => (allocatable /\ lpc # "rejected" /\ ~desc.chunkedArray)

\* a non-empty Hybrid request was rejected because GC is not allowed
C18_Witness ==
    /\ CalledOnAllocatable
    /\ lpc = "rejected"
    /\ layout = "Hybrid"
    /\ numberOfArraylets >= 2
    /\ ~gcAllowed

\* C19: a request with a Discontiguous or Hybrid layout and zero arraylets, made
\* on an allocatable model, is rejected by initializeAllocateDescription as a
\* local failure: it returns false and no assertion stops the process.
C19_ZeroLeavesRejected ==
    ( /\ lpc # "start"
      /\ wasAllocatable
      /\ layout # "InlineContiguous"
      /\ numberOfArraylets = 0 )
    => (lpc = "rejected" /\ ~allocatable)

\* C20: a Hybrid array is never double mapped: doubleMapArraylets is not called
\* for it, and with double mapping enabled a Hybrid array does not get past the
\* post-loop step of layoutDiscontiguousArraylet (the assertion stops it).
C20_HybridNeverDoubleMapped ==
    (layout = "Hybrid") =>
        /\ dmCalls = <<>>
        /\ dmResult = NotYet
        /\ LoopCompleted("Hybrid") => ~doubleMappingEnabled

\* a Hybrid array with leaves reached the post-loop step with double mapping
\* enabled and was stopped there
C20_Witness ==
    /\ layout = "Hybrid"
    /\ doubleMappingEnabled
    /\ lpc = "assertFailed"
    /\ leafAllocs >= 1
    /\ bytesRemaining = 0
    /\ failedAt = NotYet
    /\ writes # <<>>

\* doubleMapArraylets was entered for the built array: heap->doubleMapArraylet was
\* called, or the leaf count assertion inside doubleMapArraylets stopped it
DoubleMapAttempted == dmCalls # <<>> \/ lpc = "leafCountAssertFailed"

\* C21: for a Discontiguous array whose leaves were all linked, double mapping
\* is attempted exactly when double mapping is enabled and
\* isArrayletDataDiscontiguous(spine) holds; when it is skipped no mapping and no
\* registry entry exists and layoutDiscontiguousArraylet returns the non-NULL
\* spine.
C21_DoubleMapIffEnabledAndDiscontiguous ==
    LoopCompleted("Discontiguous") =>
        /\ arrayletDataDiscontiguous \in {"yes", "no"}
        /\ DoubleMapAttempted
              <=> (doubleMappingEnabled /\ arrayletDataDiscontiguous = "yes")
        /\ ~DoubleMapAttempted =>
              /\ dmResult = NotYet
              /\ arrayletHashTable = {}
              /\ liveMaps = {}
              /\ spine # NULL
              /\ lpc = "done" => (returned = spine /\ returned # NULL)

\* double mapping is enabled, the data of the built array is not discontiguous,
\* and the array was returned without a mapping
C21_Witness ==
    /\ LoopCompleted("Discontiguous")
    /\ lpc = "done"
    /\ doubleMappingEnabled
    /\ arrayletDataDiscontiguous = "no"
    /\ dmCalls = <<>>
    /\ returned # NULL

FreeDoubleMapRan(t) == pc[t] \in {"relDone", "aborted"}

\* C23: when j9vmem_free_memory fails, freeDoubleMap returns false to its caller
\* and does not abort; it returns true exactly when the primitive succeeded.
C23_UnmapFailureReturnsFalse ==
    \A t \in Threads :
        FreeDoubleMapRan(t) =>
            /\ pc[t] = "relDone"
            /\ released[t].freed <=> released[t].unmapOk

\* a thread that has returned from its call, or is between calls, does not hold
\* _arrayletLock
LockFreeOnReturn ==
    \A t \in Threads : pc[t] \in {"ret", "idle"} => arrayletLock # t

\* C24: the registry lock is released on every exit path of doubleMapArraylets:
\* a thread whose call has returned does not hold _arrayletLock, and under fair
\* scheduling a thread waiting for the lock eventually acquires it and no
\* thread holds it forever (unless the process has been stopped).
C24_LockAlwaysReleased ==
    /\ []LockFreeOnReturn
    /\ \A t \in Threads :
          /\ (pc[t] = "acquire") ~> (arrayletLock = t \/ Aborted)
          /\ (arrayletLock = t) ~> (arrayletLock # t \/ Aborted)

\* a thread returned through the insert-failure path and another thread holds
\* the lock after it
C24_Witness ==
    \E t \in Threads, u \in Threads :
        /\ t # u
        /\ pc[t] = "ret"
        /\ callInfo[t].addFailed
        /\ result[t] = NULL
        /\ pc[u] = "add"
        /\ arrayletLock = u

\* initializeAllocateDescription accepted the request and initializeIndexableObject
\* got past its layout switch without an assertion failure
PassedInitialization == lpc \in {"leafLoop", "hashSlot", "done"}

\* C25: for every array that passes initializeAllocateDescription and
\* initializeIndexableObject without an assertion failure, layout
\* InlineContiguous implies numberOfArraylets = 1 and layout Discontiguous or
\* Hybrid implies numberOfArraylets >= 1.
C25_ArrayletCountMatchesLayout ==
    PassedInitialization =>
        /\ (layout = "InlineContiguous") => (numberOfArraylets = 1)
        /\ (layout # "InlineContiguous") => (numberOfArraylets >= 1)

\* a non-empty InlineContiguous array was initialized and returned
C25_Witness ==
    /\ lpc = "done"
    /\ layout = "InlineContiguous"
    /\ numberOfIndexedFields > 0
    /\ numberOfArraylets = 1
    /\ returned # NULL

\* the array of 10000 elements of 8 bytes with leaves of 4096 bytes, past its
\* leaf loop with every leaf allocation successful
ExampleArrayFinished ==
    /\ example.elementCount = 10000
    /\ example.elementSize = 8
    /\ example.arrayletLeafSize = 4096
    /\ example.pc \in {"built", "assertFailed"}

\* what C26 says about the leaves of the example array, without the byte count
\* of the last leaf
ExampleLeaves ==
    /\ example.pc = "built"
    /\ example.dataSize = 80000
    /\ example.leafAllocs = 20
    /\ Len(example.arrayoid) = 20
    /\ \A i \in 1..20 : example.arrayoid[i] = LeafRef(i)
    /\ ~example.trailingNull

\* C26 (as amended): for elementCount = 10000, elementSize = 8 and
\* leafSize = 4096 (80000 data bytes) in Discontiguous layout, a successful
\* build performs exactly 20 leaf allocations, fills arrayoid slots 0..19 with
\* non-NULL leaves, writes no NULL trailing slot, and the last leaf accounts for
\* 80000 - 19*4096 = 2176 bytes.
C26_ExampleTwentyLeaves ==
    ExampleArrayFinished =>
        /\ ExampleLeaves
        /\ example.lastLeafBytes = 80000 - 19 * 4096
        /\ example.lastLeafBytes = 2176

\* C26 as the specification states it: the last leaf accounts for 3296 bytes
C26_AsStated ==
    ExampleArrayFinished =>
        /\ ExampleLeaves
        /\ example.lastLeafBytes = 3296

\* the example array has been built
C26_Witness ==
    /\ example.elementCount = 10000
    /\ example.elementSize = 8
    /\ example.arrayletLeafSize = 4096
    /\ example.pc = "built"
    /\ example.leafAllocs = 20

\* the spine size before adjustSizeInBytes: the layout's spine size, and one
\* more word when the hash flag is set and the hash code offset is the spine size
UnroundedSpineBytes ==
    LET raw == GetSpineSize(layout, numberOfArraylets, dataSize)
    IN IF desc.preHashFlag
          /\ raw = GetHashcodeOffset(layout, numberOfArraylets, dataSize)
       THEN raw + WordSize
       ELSE raw

\* C27: the spineBytes recorded by initializeAllocateDescription is rounded up to
\* the object alignment after the layout spine size and the optional hash word
\* have been added: it is a multiple of the object alignment and not smaller
\* than the unrounded spine size.
C27_SpineBytesRoundedUp ==
    Accepted =>
        /\ desc.spineBytes % ObjectAlignment = 0
        /\ desc.spineBytes >= UnroundedSpineBytes
        /\ desc.spineBytes >= GetSpineSize(layout, numberOfArraylets, dataSize)

\* an accepted request whose unrounded spine size is not aligned
C27_Witness ==
    /\ Accepted
    /\ UnroundedSpineBytes % ObjectAlignment # 0
    /\ desc.spineBytes > UnroundedSpineBytes

\* an accepted request that got the extra hash word
C27_WitnessHashWord ==
    /\ Accepted
    /\ desc.preHashFlag
    /\ UnroundedSpineBytes > GetSpineSize(layout, numberOfArraylets, dataSize)

\* C28: whenever doubleMapArraylets returns a non-NULL alias for an object, the
\* registry holds an entry keyed by the object's address whose contiguousAddr is
\* the returned alias, whose dataSize is the size in its identifier, whose
\* actualSize is the array's data size in bytes, and dataSize >= actualSize.
C28_ReturnedAliasIsRegistered ==
    \A t \in Threads :
        (pc[t] = "ret" /\ result[t] # NULL)
        => \E e \in arrayletHashTable :
              /\ e.heapAddr = objectPtr[t]
              /\ e.contiguousAddr = result[t]
              /\ e.dataSize = e.identifier.size
              /\ e.actualSize = GetDataSizeInBytes(objectPtr[t])
              /\ e.dataSize >= e.actualSize

\* every leaf allocation of a Discontiguous array succeeded, doubleMapArraylets
\* was called for it and returned NULL
DoubleMapReturnedNull ==
    /\ layout = "Discontiguous"
    /\ failedAt = NotYet
    /\ dmCalls # <<>>
    /\ dmResult = NULL

\* C29: a failure of double mapping does not fail the allocation: when all leaf
\* allocations succeeded and doubleMapArraylets returns NULL,
\* layoutDiscontiguousArraylet still returns the fully linked non-NULL spine and
\* the spine of the allocation description is unchanged.
C29_DoubleMapFailureKeepsSpine ==
    DoubleMapReturnedNull =>
        /\ lpc \in {"hashSlot", "done"}
        /\ spine # NULL
        /\ desc.spine = spine
        /\ desc.spine = heapSpine
        /\ leafAllocs = ArrayletLeafCount(dataSize)
        /\ \A i \in 0..(leafAllocs - 1) : mem[spine][i] = LeafRef(i + 1)
        /\ (lpc = "done") => (returned = spine)

\* the array was returned after its double mapping had failed
C29_Witness ==
    /\ DoubleMapReturnedNull
    /\ lpc = "done"
    /\ returned # NULL
    /\ leafAllocs >= 2

\* C30: on every return path of initializeIndexableObject (inline layout, empty
\* non-inline array, leaves linked with any number of spine relocations, leaf
\* allocation failure, NULL spine from header initialization) the returned spine
\* equals the spine stored in the allocation description, so the final
\* assertion spine == _allocateDescription.getSpine() never fails.
C30_ReturnedSpineIsDescriptionSpine ==
    /\ (lpc = "hashSlot") => (spine = desc.spine)
    /\ (lpc = "done") => (returned = desc.spine /\ returned = spine)

\* an array whose spine was moved after its first leaf was linked has been
\* returned at its new address
C30_Witness ==
    /\ lpc = "done"
    /\ returned # NULL
    /\ returned = desc.spine
    /\ Len(writes) >= 2
    /\ writes[1].addr # returned

\* the NULL return after a failed leaf allocation
C30_WitnessLeafFailure ==
    /\ lpc = "done"
    /\ failedAt # NotYet
    /\ returned = NULL
    /\ desc.spine = NULL

\* the leaf loop has been left with every leaf allocation successful
LoopExited ==
    /\ layout # "InlineContiguous"
    /\ failedAt = NotYet
    /\ \/ (lpc = "leafLoop" /\ bytesRemaining = 0)
       \/ (lpc \in {"hashSlot", "done", "leafCountAssertFailed"}
             /\ spine # NULL /\ numberOfIndexedFields > 0)

\* C31: the leaf loop of layoutDiscontiguousArraylet always terminates:
\* bytesRemaining strictly decreases on each successful leaf allocation, a loop
\* that ran to its end made exactly
\* ceil((bytesRequested - contiguousBytes) / leafSize) leaf allocations, and for
\* Hybrid the bytes to allocate are a multiple of the leaf size and exactly
\* numberOfArraylets - 1 leaves are allocated.
C31_LeafLoopTerminates ==
    /\ [][(lpc = "leafLoop" /\ lpc' = "leafLoop" /\ leafAllocs' # leafAllocs)
            => (bytesRemaining' < bytesRemaining /\ bytesRemaining' >= 0)]_vars
    /\ [](LoopExited =>
            LET toAllocate == desc.bytesRequested - GetContiguousBytes(desc)
            IN /\ leafAllocs = RoundToCeiling(LeafSize, toAllocate) \div LeafSize
               /\ (layout = "Hybrid") =>
                     /\ toAllocate % LeafSize = 0
                     /\ leafAllocs = numberOfArraylets - 1)
    /\ (lpc = "leafLoop") ~> (lpc # "leafLoop")

\* a Hybrid array with two leaves has been built
C31_Witness ==
    /\ lpc = "done"
    /\ layout = "Hybrid"
    /\ returned # NULL
    /\ leafAllocs = numberOfArraylets - 1
    /\ leafAllocs >= 2
    /\ bytesRemaining = 0

\* C32: for a Discontiguous or Hybrid array with zero elements,
\* initializeIndexableObject requests no leaf allocation, writes no arrayoid
\* slot, attempts no double mapping, and returns the spine produced by header
\* initialization.
C32_EmptyArrayLeftAlone ==
    (layout # "InlineContiguous" /\ numberOfIndexedFields = 0) =>
        /\ lpc \notin {"leafLoop", "leafCountAssertFailed"}
        /\ leafAllocs = 0
        /\ writes = <<>>
        /\ mem = [a \in SpineAddrs |-> [i \in Slots |-> RawRef]]
        /\ dmCalls = <<>>
        /\ dmResult = NotYet
        /\ arrayletDataDiscontiguous = "notAsked"
        /\ (lpc = "done") => (returned = heapSpine /\ returned = desc.spine)

\* an empty Discontiguous array was returned at the address header
\* initialization gave it, with double mapping enabled
C32_Witness ==
    /\ layout = "Discontiguous"
    /\ numberOfIndexedFields = 0
    /\ doubleMappingEnabled
    /\ lpc = "done"
    /\ returned # NULL
    /\ returned = heapSpine

\* C33: when initializeAllocateDescription returns false, bytesRequested,
\* numArraylets, spineBytes and the chunked-array flag of the description are
\* left as they were and the model is not allocatable afterwards, so every later
\* call on the same model returns false as well and changes nothing.
C33_RejectionLeavesDescription ==
    /\ [][(lpc' = "rejected") =>
              /\ lpc \in {"start", "rejected"}
              /\ desc'.bytesRequested = desc.bytesRequested
              /\ desc'.numArraylets = desc.numArraylets
              /\ desc'.spineBytes = desc.spineBytes
              /\ desc'.chunkedArray = desc.chunkedArray
              /\ ~allocatable']_vars
    /\ [](lpc = "rejected" =>
              /\ ~allocatable
              /\ ~ENABLED (InitializeAllocateDescription /\ lpc' # "rejected"))

\* an allocatable model was refused by the layout switch (a non-empty Hybrid or
\* Discontiguous array while GC is not allowed)
C33_Witness ==
    /\ lpc = "rejected"
    /\ wasAllocatable
    /\ ~allocatable
    /\ ~gcAllowed
    /\ layout # "InlineContiguous"
    /\ desc.bytesRequested = 0
    /\ ~desc.chunkedArray

C34_WitnessCreated ==
    /\ extensions.pc = "returned"
    /\ extensions.instance = "extensions"
    /\ extensions.arrayletHashTable = "table"
    /\ extensions.lockInitialized

\* the phases the statement of C35 gives for an action
PhasesStated(action) ==
    CASE action = "COPY_FORWARD_ALL" -> <<"roots", "scan", "complete">>
      [] action = "COPY_FORWARD_ROOTS" -> <<"roots">>
      [] action = "COPY_FORWARD_SCAN" -> <<"scan">>
      [] action = "COPY_FORWARD_COMPLETE" -> <<"complete">>
      [] OTHER -> <<>>

\* C35: run with COPY_FORWARD_ALL performs root processing, then scan, then
\* completion, each exactly once and in that order; with COPY_FORWARD_ROOTS,
\* COPY_FORWARD_SCAN or COPY_FORWARD_COMPLETE it performs exactly that one
\* phase; any other action is an assertion failure with no phase executed.
C35_PhasesFollowAction ==
    /\ (task.pc \in {"break", "idle"} /\ task.action # "none") =>
          /\ task.action \in CopyForwardActions
          /\ task.phases = PhasesStated(task.action)
    /\ (task.pc \in {"switch", "afterRoots", "afterScan", "assertFailed"}) =>
          /\ Len(task.phases) <= Len(PhasesStated(task.action))
          /\ task.phases = SubSeq(PhasesStated(task.action), 1, Len(task.phases))
    /\ (task.pc = "assertFailed") =>
          (task.action \notin CopyForwardActions /\ task.phases = <<>>)
    /\ (task.action \notin CopyForwardActions /\ task.action # "none") =>
          task.pc \in {"switch", "assertFailed"}

\* a COPY_FORWARD_ALL run has gone through its three phases after a
\* COPY_FORWARD_ROOTS run had returned
C35_Witness ==
    /\ task.pc = "break"
    /\ task.action = "COPY_FORWARD_ALL"
    /\ task.phases = <<"roots", "scan", "complete">>
    /\ task.finished = <<"COPY_FORWARD_ROOTS">>

\* C36: while every added range is adjacent to the recorded range or the
\* recorded range is empty, and every removed range is a prefix or suffix of
\* the recorded range, no assertion of identityHashDataAddRange or
\* identityHashDataRemoveRange fails and hashData1 <= hashData2 holds once a
\* range has been recorded.
C36_NoAssertionFails ==
    hashData.premise =>
      /\ hashData.pc # "assertFailed"
      /\ (hashData.last # "none") => (hashData.hashData1 <= hashData.hashData2)

\* the part of C36 that does hold: hashData1 <= hashData2 after every call
\* that returned
C36_BoundsOrdered ==
    (hashData.premise /\ hashData.pc = "ready" /\ hashData.last # "none") =>
      (hashData.hashData1 <= hashData.hashData2)

\* a range was added, removed whole, and the recorded bounds are equal
C36_WholeRangeRemoved ==
    /\ hashData.pc = "ready"
    /\ hashData.premise
    /\ hashData.last = "remove"
    /\ hashData.calls = 2
    /\ hashData.hashData1 = hashData.hashData2

\* C37: when doubleMapArraylets returns, the leaf-address buffer it got from
\* malloc has been freed or belongs to a registry entry (whose release frees
\* it); no buffer is still allocated when it returns NULL.
C37_NoLeafBufferLeaked ==
    \A t \in Threads :
       pc[t] = "ret" =>
         /\ callInfo[t].buffer \in {"freed", "stored"}
         /\ (result[t] = NULL) => (callInfo[t].buffer = "freed")

\* the buffers a registry entry or a call in progress points to
BuffersPointedTo ==
    Cardinality(arrayletHashTable)
    + Cardinality({t \in Threads : callInfo[t].buffer = "local"})
    + Cardinality({t \in Threads : pc[t] = "relFree"})

\* a part of C37 that does hold: the buffer of every registry entry is
\* allocated, and freeDoubleMap frees the buffer of the entry it is called for
C37_StoredBuffersAreFreed ==
    /\ leafBuffers >= BuffersPointedTo
    /\ (calls = 2 /\ \E t \in Threads : pc[t] = "relDone") => (leafBuffers = 0)

\* a mapping was stored and released, and its buffer freed
C37_BufferFreedOnRelease ==
    /\ calls = 2
    /\ \E t \in Threads : pc[t] = "relDone" /\ released[t].removed # NoEntry
    /\ leafBuffers = 0

====
